---- MODULE Spec2Model ----
(***************************************************************************)
(* The backtracking Sudoku solver of src/Sudoko.js (isValid,               *)
(* findEmptyCell, solveSudoku) as a state machine.  The recursion of       *)
(* solveSudoku is an explicit stack of activations; one action is one      *)
(* piece of straight-line code between two calls or returns.               *)
(***************************************************************************)
EXTENDS Integers, Sequences, FiniteSets

VARIABLES
    board,   \* numberBoard, the 9x9 array solveSudoku mutates in place
    stack,   \* the activations of solveSudoku that are inside their for loop
    pc,      \* "call" | "loop" | "ret" | "done"
    ret,     \* the value the last finished call returned
    input,   \* the grid the current root call received (history variable)
    calls,   \* how many root calls were made so far (history variable)
    track    \* whether an activation records the grid it received (history switch)

vars == <<board, stack, pc, ret, input, calls, track>>

\* ---------------------------------------------------------------- bounds

\* At most this many cells of the displayed solution are emptied by the user.
MaxBlanks == 4
\* At most this many root calls of solveSudoku on one grid.
MaxCalls == 2

\* ------------------------------------------------------ program constants

\* The grid is 9 x 9: every loop of the source runs to 9.
N == 9
\* Side of a box: Math.floor(row / 3) * 3.
Box == 3

Idx == 0 .. (N - 1)
Digits == 1 .. N
Null == <<>>

\* --------------------------------------------------------- string cells

\* The UI keeps every cell as a string; '' is an empty cell.
CellStrings == {"", "1", "2", "3", "4", "5", "6", "7", "8", "9"}

\* parseInt(cell) on the one-character strings handleCellChange lets in.
parseInt(s) ==
    CASE s = "0" -> 0
      [] s = "1" -> 1 [] s = "2" -> 2 [] s = "3" -> 3
      [] s = "4" -> 4 [] s = "5" -> 5 [] s = "6" -> 6
      [] s = "7" -> 7 [] s = "8" -> 8 [] s = "9" -> 9

\* cell.toString() on a number 0..9.
toString(n) ==
    CASE n = 0 -> "0"
      [] n = 1 -> "1" [] n = 2 -> "2" [] n = 3 -> "3"
      [] n = 4 -> "4" [] n = 5 -> "5" [] n = 6 -> "6"
      [] n = 7 -> "7" [] n = 8 -> "8" [] n = 9 -> "9"

\* board.map(row => row.map(cell => cell === '' ? 0 : parseInt(cell)))
numberBoard(ui) ==
    [i \in Idx |-> [j \in Idx |-> IF ui[i][j] = "" THEN 0 ELSE parseInt(ui[i][j])]]

\* numberBoard.map(row => row.map(cell => cell.toString()))
solvedBoard(b) == [i \in Idx |-> [j \in Idx |-> toString(b[i][j])]]

\* A 9-tuple of 9-tuples as a zero-indexed array of arrays.
Grid(rows) == [i \in Idx |-> [j \in Idx |-> rows[i + 1][j + 1]]]

\* The puzzle of loadExample.
example ==
    Grid(<< <<"5", "3", "",  "",  "7", "",  "",  "",  "" >>,
            <<"6", "",  "",  "1", "9", "5", "",  "",  "" >>,
            <<"",  "9", "8", "",  "",  "",  "",  "6", "" >>,
            <<"8", "",  "",  "",  "6", "",  "",  "",  "3">>,
            <<"4", "",  "",  "8", "",  "3", "",  "",  "1">>,
            <<"7", "",  "",  "",  "2", "",  "",  "",  "6">>,
            <<"",  "6", "",  "",  "",  "",  "2", "8", "" >>,
            <<"",  "",  "",  "4", "1", "9", "",  "",  "5">>,
            <<"",  "",  "",  "",  "8", "",  "",  "7", "9">> >>)

\* ------------------------------------------------------- the input grids

\* The grid solveSudoku leaves for the puzzle of loadExample, which
\* setBoard(solvedBoard) then displays.
solution ==
    Grid(<< <<5, 3, 4, 6, 7, 8, 9, 1, 2>>,
            <<6, 7, 2, 1, 9, 5, 3, 4, 8>>,
            <<1, 9, 8, 3, 4, 2, 5, 6, 7>>,
            <<8, 5, 9, 7, 6, 1, 4, 2, 3>>,
            <<4, 2, 6, 8, 5, 3, 7, 9, 1>>,
            <<7, 1, 3, 9, 2, 4, 8, 5, 6>>,
            <<9, 6, 1, 5, 3, 7, 2, 8, 4>>,
            <<2, 8, 7, 4, 1, 9, 6, 3, 5>>,
            <<3, 4, 5, 2, 8, 6, 1, 7, 9>> >>)

\* if (value === '' || (value >= '1' && value <= '9')) newBoard[row][col] = value;
handleCellChange(ui, row, col, value) ==
    IF value \in CellStrings THEN [ui EXCEPT ![row][col] = value] ELSE ui

\* The cells the user empties: two rectangles of the solution whose corners
\* hold two digits crosswise, (3,5) (3,8) (4,5) (4,8) and (6,3) (6,8) (7,3) (7,8).
ClearCells ==
    {<<3, 5>>, <<3, 8>>, <<4, 5>>, <<4, 8>>, <<6, 3>>, <<6, 8>>, <<7, 3>>, <<7, 8>>}

\* The cells the user may type one digit into.
TypeCells == {<<0, 0>>, <<3, 5>>, <<7, 8>>}

\* handleCellChange(row, col, '') for every cell of a set.
RECURSIVE clearAll(_, _)
clearAll(ui, cells) ==
    IF cells = {} THEN ui
    ELSE LET c == CHOOSE x \in cells : TRUE
         IN  clearAll(handleCellChange(ui, c[1], c[2], ""), cells \ {c})

\* The boards the user can leave: the displayed solution with at most
\* MaxBlanks cells emptied, and then at most one digit typed.
ClearedBoards ==
    {clearAll(solvedBoard(solution), B) :
        B \in {X \in SUBSET ClearCells : Cardinality(X) <= MaxBlanks}}

EditedBoards ==
    ClearedBoards \cup
    {handleCellChange(ui, c[1], c[2], v) :
        ui \in ClearedBoards, c \in TypeCells, v \in CellStrings \ {""}}

\* What handleSolve hands to solveSudoku.
InputGrids == {numberBoard(ui) : ui \in EditedBoards}

\* ------------------------------------------------------------- isValid

\* Mutant: the row is not checked at all.
rowFreeSkipped(b, row, num) == TRUE

\* Mutant: the row loop stops one cell early (j < 8).
rowFreeShort(b, row, num) == \A j \in 0 .. (N - 2) : b[row][j] # num

\* Check row
rowFree(b, row, num) == \A j \in Idx : b[row][j] # num

\* Check column
colFree(b, col, num) == \A i \in Idx : b[i][col] # num

\* Mutant: the box origin is Math.floor(row / 3), not multiplied back by 3.
boxFreeWrongOrigin(b, row, col, num) ==
    LET boxRow == row \div Box
        boxCol == col \div Box
    IN  \A i \in boxRow .. (boxRow + Box - 1) :
            \A j \in boxCol .. (boxCol + Box - 1) : b[i][j] # num

\* Check 3x3 box
boxFree(b, row, col, num) ==
    LET boxRow == (row \div Box) * Box
        boxCol == (col \div Box) * Box
    IN  \A i \in boxRow .. (boxRow + Box - 1) :
            \A j \in boxCol .. (boxCol + Box - 1) : b[i][j] # num

isValid(b, row, col, num) ==
    /\ rowFree(b, row, num)
    /\ colFree(b, col, num)
    /\ boxFree(b, row, col, num)

\* -------------------------------------------------------- findEmptyCell

\* Mutant: the inner loop runs from the last column down.
scanColsReversed(b, i, j) ==
    LET zeros == {k \in j .. (N - 1) : b[i][k] = 0}
    IN  IF zeros = {} THEN Null
        ELSE <<i, CHOOSE k \in zeros : \A m \in zeros : m <= k>>

\* The inner loop: for (let j = 0; j < 9; j++) in row i, from column j on.
RECURSIVE scanCols(_, _, _)
scanCols(b, i, j) ==
    IF j >= N THEN Null
    ELSE IF b[i][j] = 0 THEN <<i, j>>
    ELSE scanCols(b, i, j + 1)

\* The outer loop: for (let i = 0; i < 9; i++), from row i on.
RECURSIVE scanRows(_, _)
scanRows(b, i) ==
    IF i >= N THEN Null
    ELSE LET hit == scanCols(b, i, 0)
         IN  IF hit # Null THEN hit ELSE scanRows(b, i + 1)

\* Mutant: a grid without an empty cell yields [0, 0] instead of null.
findEmptyCellNeverNull(b) ==
    IF scanRows(b, 0) = Null THEN <<0, 0>> ELSE scanRows(b, 0)

findEmptyCell(b) == scanRows(b, 0)

\* ---------------------------------------------------------- solveSudoku

\* Mutant: the loop starts at 2.
firstNumSkipsOne == 1 + 1

\* Mutant: num wraps to 1 after 9 instead of leaving the loop.
nextNumWraps(num) == IF num >= N THEN 1 ELSE num + 1

\* Mutant: the digit is written with the indices swapped.
placeTransposed(b, row, col, num) == [b EXCEPT ![col][row] = num]

\* Mutant: the backtrack reset is forgotten.
backtrackForgotten(b, row, col) == b

\* for (let num = 1; ...
firstNum == 1

\* ...; num <= 9; ...
inLoop(num) == num <= N

\* ...; num++)
nextNum(num) == num + 1

\* board[row][col] = num;
place(b, row, col, num) == [b EXCEPT ![row][col] = num]

\* board[row][col] = 0; // Backtrack
backtrack(b, row, col) == [b EXCEPT ![row][col] = 0]

Top == stack[Len(stack)]
Pop == SubSeq(stack, 1, Len(stack) - 1)

\* A call returns v to its caller: to the activation below it, which is
\* waiting at `if (solveSudoku(board))`, or to handleSolve.
Return(v, rest) ==
    /\ ret' = v
    /\ stack' = rest
    /\ pc' = IF rest = <<>> THEN "done" ELSE "ret"

\* const emptyCell = findEmptyCell(board); if (!emptyCell) return true;
\* const [row, col] = emptyCell; and the loop starts at num = 1.
Enter ==
    /\ pc = "call"
    /\ LET emptyCell == findEmptyCell(board)
       IN  IF emptyCell = Null
           THEN Return(TRUE, stack)
           ELSE /\ stack' = Append(stack, [row |-> emptyCell[1], col |-> emptyCell[2],
                                           num |-> firstNum,
                                           entry |-> IF track THEN board ELSE Null])
                /\ pc' = "loop"
                /\ ret' = ret
    /\ UNCHANGED <<board, input, calls, track>>

\* One pass of the loop head: if (isValid(board, row, col, num)) the digit is
\* placed and solveSudoku is called again; otherwise num++.
TryCandidate ==
    /\ pc = "loop"
    /\ inLoop(Top.num)
    /\ IF isValid(board, Top.row, Top.col, Top.num)
       THEN /\ board' = place(board, Top.row, Top.col, Top.num)
            /\ pc' = "call"
            /\ stack' = stack
       ELSE /\ stack' = [stack EXCEPT ![Len(stack)].num = nextNum(Top.num)]
            /\ UNCHANGED <<board, pc>>
    /\ UNCHANGED <<ret, input, calls, track>>

\* The loop is over: return false;
Exhausted ==
    /\ pc = "loop"
    /\ ~inLoop(Top.num)
    /\ Return(FALSE, Pop)
    /\ UNCHANGED <<board, input, calls, track>>

\* if (solveSudoku(board)) { return true; }
Succeeded ==
    /\ pc = "ret"
    /\ ret
    /\ Return(TRUE, Pop)
    /\ UNCHANGED <<board, input, calls, track>>

\* The recursive call returned false: board[row][col] = 0; and num++.
Failed ==
    /\ pc = "ret"
    /\ ~ret
    /\ board' = backtrack(board, Top.row, Top.col)
    /\ stack' = [stack EXCEPT ![Len(stack)].num = nextNum(Top.num)]
    /\ pc' = "loop"
    /\ UNCHANGED <<ret, input, calls, track>>

\* handleSolve once more on the board setBoard(solvedBoard) displays: the
\* strings are parsed back and solveSudoku runs on the result.
SolveAgain ==
    /\ pc = "done"
    /\ ret
    /\ calls < MaxCalls
    /\ board' = numberBoard(solvedBoard(board))
    /\ input' = board'
    /\ stack' = <<>>
    /\ pc' = "call"
    /\ calls' = calls + 1
    /\ ret' = ret
    /\ track' = track

Next ==
    \/ Enter
    \/ TryCandidate
    \/ Exhausted
    \/ Succeeded
    \/ Failed
    \/ SolveAgain

Start(g, t) ==
    /\ track = t
    /\ board = g
    /\ input = g
    /\ stack = <<>>
    /\ pc = "call"
    /\ ret = FALSE
    /\ calls = 1

\* handleSolve right after loadExample.
InitExample == Start(numberBoard(example), FALSE)

SpecExample == InitExample /\ [][Next]_vars

\* handleSolve on a board the user edited.
Init == \E g \in InputGrids : Start(g, TRUE)

Spec == Init /\ [][Next]_vars

\* solveSudoku runs to completion without yielding: a step that can be taken is taken.
FairSpec == Spec /\ WF_vars(Next)

\* ------------------------------------------------ the rules of the puzzle

Cells == Idx \X Idx

At(b, p) == b[p[1]][p[2]]

RowUnits == {{<<i, j>> : j \in Idx} : i \in Idx}
ColUnits == {{<<i, j>> : i \in Idx} : j \in Idx}
BoxUnits ==
    {{<<i, j>> : i \in (Box * bi) .. (Box * bi + Box - 1),
                 j \in (Box * bj) .. (Box * bj + Box - 1)} :
        bi \in 0 .. (N \div Box - 1), bj \in 0 .. (N \div Box - 1)}
Units == RowUnits \cup ColUnits \cup BoxUnits

\* The cells that share a row, a column or a box with p.
Peers[p \in Cells] == UNION {u \in Units : p \in u} \ {p}

\* No digit is repeated among the non-zero cells of a row, a column or a box.
\* (A unit has as many distinct non-zero digits as it has non-zero cells.)
Consistent(b) ==
    \A u \in Units :
        Cardinality({At(b, p) : p \in u} \ {0}) = Cardinality({p \in u : At(b, p) # 0})

\* No cell is 0 and every row, column and box is a permutation of 1..9.
SolvedGrid(b) == \A u \in Units : {At(b, p) : p \in u} = Digits

Empties(b) == {p \in Cells : At(b, p) = 0}

HasRepeat(b) == ~Consistent(b)

\* g keeps every non-zero cell of b.
Keeps(g, b) == \A p \in Cells : At(b, p) # 0 => At(g, p) = At(b, p)

\* The digits that no peer of p holds.
Free(b, p) == Digits \ {At(b, q) : q \in Peers[p]}

\* Every solved grid that keeps the non-zero cells of b.  An empty cell of
\* a completion holds a digit none of its peers holds, so the completions
\* of b are those of b with any one empty cell set to one of its free
\* digits; the cell taken is one with the fewest free digits.
RECURSIVE Completions(_)
Completions(b) ==
    LET E == Empties(b)
    IN  IF E = {}
        THEN IF SolvedGrid(b) THEN {b} ELSE {}
        ELSE LET p == CHOOSE x \in E :
                        \A y \in E : Cardinality(Free(b, x)) <= Cardinality(Free(b, y))
             IN  UNION {Completions([b EXCEPT ![p[1]][p[2]] = d]) : d \in Free(b, p)}

\* g is not after h when the 81 cells are read in row-major order.
LexLeq(g, h) ==
    \/ g = h
    \/ \E p \in Cells :
          /\ At(g, p) < At(h, p)
          /\ \A q \in Cells :
                (q[1] < p[1] \/ (q[1] = p[1] /\ q[2] < p[2])) => At(g, q) = At(h, q)

\* The first cell holding 0 in row-major order.
IsFirstZero(b, p) ==
    /\ At(b, p) = 0
    /\ \A q \in Empties(b) : p[1] < q[1] \/ (p[1] = q[1] /\ p[2] <= q[2])

Frames == {stack[k] : k \in 1 .. Len(stack)}

Done == pc = "done"

\* ----------------------------------------------------------------- claims

\* C1: for a consistent input, whenever solveSudoku returns true the grid
\* it leaves has no 0 cell and every row, column and box is a permutation
\* of 1..9.
C1_SolvedWhenTrue ==
    (Done /\ ret /\ Consistent(input)) => SolvedGrid(board)

C1_Witness ==
    /\ Done /\ ret /\ calls = 1
    /\ Consistent(input)
    /\ Cardinality(Empties(input)) >= 2
    /\ board # input

\* C2: for a consistent input, solveSudoku returns true if and only if the
\* input has a completion; it returns false only when there is none.
C2_TrueIffCompletion ==
    (Done /\ Consistent(input)) => (ret <=> Completions(input) # {})

C2_Witness ==
    /\ Done /\ ~ret
    /\ Consistent(input)
    /\ Empties(input) # {}
    /\ Completions(input) = {}

\* C3: for an input that repeats a non-zero digit in a row, a column or a
\* box, solveSudoku returns false, whatever the other cells are.
C3_RepeatReturnsFalse ==
    (Done /\ HasRepeat(input)) => ~ret

\* C4: on a grid with no 0 cell and no repeated digit solveSudoku returns
\* true without entering its loop and without writing a cell; and a second
\* call on the grid a successful call left returns true and leaves all 81
\* cells as the first call left them.
C4_FixedPoint ==
    /\ [](((Empties(input) = {} /\ Consistent(input)) \/ calls > 1) =>
            (stack = <<>> /\ board = input /\ (Done => ret)))
    /\ [][Done => (board' = board /\ input' = board)]_vars

C4_Witness ==
    /\ Done /\ ret /\ calls = 2
    /\ board = input
    /\ board # solution

\* C5: on the puzzle of loadExample solveSudoku returns true and leaves
\* exactly the grid `solution`, the only completion of the givens.
C5_Example ==
    Done =>
        /\ ret
        /\ board = solution
        /\ Completions(numberBoard(example)) = {solution}

C5_Witness ==
    /\ Done /\ calls = 1
    /\ input = numberBoard(example)
    /\ Cardinality(Empties(input)) = 51
    /\ board # input

\* C6: the search terminates for every input, solvable or not: a call of
\* solveSudoku leaves one 0 cell fewer to the call it makes, every loop
\* tries only the candidates 1..9, and the root call eventually returns.
C6_Terminates ==
    /\ (pc = "call" /\ stack = <<>>) ~> Done
    /\ [](\A f \in Frames : f.num \in 1 .. (N + 1))
    /\ [][(pc = "loop" /\ pc' = "call") =>
            Cardinality(Empties(board')) = Cardinality(Empties(Top.entry)) - 1]_vars

C6_Witness ==
    /\ Done /\ ~ret /\ calls = 1
    /\ Cardinality(Empties(input)) = 4

\* C7: every call branches on the first 0 cell in row-major order, and for
\* a consistent input the grid returned is the completion that is smallest
\* when the 81 cells are read in row-major order.
C7_SmallestCompletion ==
    /\ \A f \in Frames : IsFirstZero(f.entry, <<f.row, f.col>>)
    /\ (Done /\ ret /\ Consistent(input)) =>
          /\ board \in Completions(input)
          /\ \A g \in Completions(input) : LexLeq(board, g)

C7_Witness ==
    /\ Done /\ ret /\ calls = 1
    /\ Consistent(input)
    /\ Cardinality(Completions(input)) >= 2
    /\ board # solution

\* C8: if the input repeats no digit in a row, a column or a box, neither
\* does the grid in any state of the search.
C8_StaysConsistent ==
    Consistent(board) \/ ~Consistent(input)

C8_Witness ==
    /\ pc = "ret" /\ ~ret
    /\ Len(stack) >= 2
    /\ Consistent(input)
    /\ board # Top.entry

\* C9: whenever a call of solveSudoku returns false, the grid is cell for
\* cell the grid that call received; a failed root call hands the input back.
C9_FailureRestores ==
    /\ (pc = "loop" /\ Top.num > N) => board = Top.entry
    /\ (Done /\ ~ret) => board = input

C9_Witness ==
    /\ pc = "loop" /\ Top.num > N
    /\ Len(stack) >= 2
    /\ board = Top.entry
    /\ board # input

\* C10: every cell that is non-zero in the input holds the same value in
\* every state of the search and in the final grid.
C10_GivensKept ==
    Keeps(board, input)

C10_Witness ==
    /\ pc = "call"
    /\ Len(stack) >= 3
    /\ Cardinality(Empties(input) \ Empties(board)) >= 3

====
